---- MODULE Spec2Model ----
(***************************************************************************)
(* The DORA metrics aggregation run of scripts/aggregate_dora_metrics.py:  *)
(* load_metrics, the three calculate_* functions and the export sequence   *)
(* of generate_powerbi_export.                                             *)
(*                                                                         *)
(* A metric event is a function from its JSON keys to their values, so     *)
(* `key in metric` is `key \in DOMAIN metric` and a missing key is a key   *)
(* outside the domain.  Instants are seconds since 1970-01-01T00:00:00     *)
(* (what the ISO-8601 strings parse to); a lead time is kept in seconds    *)
(* and its hours are the exact ratio seconds / 3600.  The optional string  *)
(* fields commit_sha and workflow_run_id reach no aggregate and are left   *)
(* out of the rows.                                                        *)
(***************************************************************************)
EXTENDS Integers, Sequences, FiniteSets, TLC

VARIABLES raw_dir_exists, raw_files, metrics, deployment_freq, lead_time,
          change_failure_rate, files, attempted, summary, pc, error

vars == <<raw_dir_exists, raw_files, metrics, deployment_freq, lead_time,
          change_failure_rate, files, attempted, summary, pc, error>>

\* The most files metrics/raw holds in a run of generate_powerbi_export.
MaxFiles == 3

\* The most events handed to one calculate_* function run on its own.
MaxEvents == 4

----------------------------------------------------------------------------
(* Generic helpers *)

Range(s) == {s[i] : i \in DOMAIN s}

Has(d, key) == key \in DOMAIN d

\* dict.get(key, default)
Get(d, key, default) == IF key \in DOMAIN d THEN d[key] ELSE default

RECURSIVE SumOver(_, _)
SumOver(S, f) ==
    IF S = {} THEN 0
    ELSE LET x == CHOOSE x \in S : TRUE IN f[x] + SumOver(S \ {x}, f)

RECURSIVE SetToSeq(_)
SetToSeq(S) ==
    IF S = {} THEN <<>>
    ELSE LET x == CHOOSE x \in S : TRUE IN <<x>> \o SetToSeq(S \ {x})

\* The non-decreasing index sequences of length k over lo..n.
RECURSIVE Ascending(_, _, _)
Ascending(k, lo, n) ==
    IF k = 0 THEN {<<>>}
    ELSE UNION {{<<j>> \o s : s \in Ascending(k - 1, j, n)} : j \in lo..n}

\* The index sequences of the listings of at most max out of n candidate
\* files: one per multiset.  os.walk yields the files in the directory's
\* own order, which the caller does not choose.
Listings(n, max) == UNION {Ascending(k, 1, n) : k \in 0..max}

\* The listing an index sequence names.
Listed(candidates, idx) == [i \in DOMAIN idx |-> candidates[idx[i]]]

----------------------------------------------------------------------------
(* Calendar: pandas' .dt.date, .dt.to_period('W') and .dt.to_period('M') *)

\* .dt.date: the civil day of an instant, as days since 1970-01-01.
DateOf(ts) == ts \div 86400

\* 0 = Monday ... 6 = Sunday; 1970-01-01 was a Thursday.
Weekday(date) == (date + 3) % 7

\* to_period('W') is the Monday..Sunday week holding the day; the period is
\* named by its first and last day.
WeekOf(ts) ==
    LET monday == DateOf(ts) - Weekday(DateOf(ts))
    IN  <<monday, monday + 6>>

\* to_period('M'): <<year, month>> of the proleptic Gregorian calendar.
MonthOf(ts) ==
    LET z     == DateOf(ts) + 719468
        era   == z \div 146097
        doe   == z - era * 146097
        yoe   == (doe - doe \div 1460 + doe \div 36524 - doe \div 146096) \div 365
        doy   == doe - (365 * yoe + yoe \div 4 - yoe \div 100)
        mp    == (5 * doy + 2) \div 153
        month == IF mp < 10 THEN mp + 3 ELSE mp - 9
        year  == yoe + era * 400 + (IF month <= 2 THEN 1 ELSE 0)
    IN  <<year, month>>

\* The period column a frame is grouped by: 'date', 'week' or 'month'.
PeriodOf(ts, column) ==
    CASE column = "date"  -> DateOf(ts)
      [] column = "week"  -> WeekOf(ts)
      [] column = "month" -> MonthOf(ts)

\* The groupby key [column, 'service'] of a row.
KeyOf(row, column) == <<PeriodOf(row.timestamp, column), row.service>>

\* df.groupby([column, 'service']).size(): each key that occurs, with its
\* number of rows.
GroupSize(rows, column) ==
    [k \in {KeyOf(rows[i], column) : i \in DOMAIN rows} |->
        Cardinality({i \in DOMAIN rows : KeyOf(rows[i], column) = k})]

----------------------------------------------------------------------------
(* Results of the calculate_* functions *)

\* Before the call: the local variable is not bound yet.
Unset == [kind |-> "unset", tables |-> <<>>]

\* `return pd.DataFrame()`: an empty frame, not a dict of tables.
EmptyDataFrame == [kind |-> "DataFrame", tables |-> <<>>]

Dict(tables) == [kind |-> "dict", tables |-> tables]

----------------------------------------------------------------------------
(* calculate_deployment_frequency *)

DeploymentEventsOfOneKind(ms) ==
    SelectSeq(ms, LAMBDA m : /\ Has(m, "deployment_frequency")
                             /\ ~Has(m, "lead_time_for_changes")
                             /\ ~Has(m, "change_failure_rate"))

\* for metric in metrics: if 'deployment_frequency' in metric
DeploymentEvents(ms) ==
    SelectSeq(ms, LAMBDA m : Has(m, "deployment_frequency"))

\* metric['deployment_frequency']['deployment_id'] raises KeyError.
DeploymentKeyError(ms) ==
    \E i \in DOMAIN ms :
        /\ Has(ms[i], "deployment_frequency")
        /\ ~Has(ms[i]["deployment_frequency"], "deployment_id")

DeploymentRowsDeduplicated(ms) ==
    LET ev == DeploymentEvents(ms)
        first == {i \in DOMAIN ev :
                     \A j \in 1..(i - 1) :
                         ev[j]["deployment_frequency"]["deployment_id"]
                             # ev[i]["deployment_frequency"]["deployment_id"]}
        kept == SelectSeq([i \in DOMAIN ev |-> <<i, ev[i]>>],
                          LAMBDA p : p[1] \in first)
    IN  [i \in DOMAIN kept |->
            [timestamp     |-> kept[i][2]["timestamp"],
             service       |-> kept[i][2]["service"],
             deployment_id |-> kept[i][2]["deployment_frequency"]["deployment_id"],
             branch        |-> Get(kept[i][2]["deployment_frequency"], "branch", "unknown")]]

\* The `deployments` list: one row per event that has the payload key.
DeploymentRows(ms) ==
    LET ev == DeploymentEvents(ms)
    IN  [i \in DOMAIN ev |->
            [timestamp     |-> ev[i]["timestamp"],
             service       |-> ev[i]["service"],
             deployment_id |-> ev[i]["deployment_frequency"]["deployment_id"],
             branch        |-> Get(ev[i]["deployment_frequency"], "branch", "unknown")]]

\* groupby(...).size().reset_index(name='deployment_count')
CountTable(rows, column) ==
    LET size == GroupSize(rows, column)
    IN  {[period |-> k[1], service |-> k[2], deployment_count |-> size[k]]
         : k \in DOMAIN size}

calculate_deployment_frequency(ms) ==
    LET df == DeploymentRows(ms)
    IN  IF df = <<>> THEN EmptyDataFrame
        ELSE Dict([daily   |-> CountTable(df, "date"),
                   weekly  |-> CountTable(df, "week"),
                   monthly |-> CountTable(df, "month"),
                   raw     |-> df])

----------------------------------------------------------------------------
(* Floating-point values, kept exact: num / den with den > 0 in lowest     *)
(* terms, and the two values a division by zero yields in pandas: NaN is   *)
(* 0/0 and inf is 1/0 (-1/0).                                              *)

Abs(n) == IF n < 0 THEN -n ELSE n

RECURSIVE GCD(_, _)
GCD(a, b) == IF b = 0 THEN a ELSE GCD(b, a % b)

Ratio(n, d) ==
    LET g == GCD(Abs(n), Abs(d))
        sign == IF d < 0 THEN -1 ELSE 1
    IN  [num |-> sign * (n \div g), den |-> sign * (d \div g)]

NaN == [num |-> 0, den |-> 0]

IsNaN(x) == x.den = 0 /\ x.num = 0
IsFinite(x) == x.den > 0

\* a / b on two integer columns: no exception, 0/0 is NaN and n/0 is +-inf.
Divide(a, b) ==
    IF b = 0
    THEN [num |-> IF a > 0 THEN 1 ELSE IF a < 0 THEN -1 ELSE 0, den |-> 0]
    ELSE Ratio(a, b)

Times(x, k) == IF x.den = 0 THEN x ELSE Ratio(x.num * k, x.den)

Plus(x, y) ==
    IF IsNaN(x) \/ IsNaN(y) THEN NaN
    ELSE IF x.den = 0 /\ y.den = 0
         THEN (IF x.num = y.num THEN x ELSE NaN)
    ELSE IF x.den = 0 THEN x
    ELSE IF y.den = 0 THEN y
    ELSE Ratio(x.num * y.den + y.num * x.den, x.den * y.den)

\* x < y on finite values.
Less(x, y) == x.num * y.den < y.num * x.den

\* The integer nearest to n / d (d > 0), a tie going to the even one, as
\* numpy's rint does.
RoundHalfEven(n, d) ==
    LET q == n \div d
        r == n % d
    IN  IF 2 * r < d THEN q
        ELSE IF 2 * r > d THEN q + 1
        ELSE IF q % 2 = 0 THEN q ELSE q + 1

\* Series.round(2); NaN and inf stay what they are.
Round2(x) ==
    IF x.den = 0 THEN x ELSE Ratio(RoundHalfEven(x.num * 100, x.den), 100)

----------------------------------------------------------------------------
(* calculate_lead_time *)

\* for metric in metrics: if 'lead_time_for_changes' in metric
LeadTimeEvents(ms) ==
    SelectSeq(ms, LAMBDA m : Has(m, "lead_time_for_changes"))

\* lt['commit_timestamp'] or lt['deploy_timestamp'] raises KeyError.
LeadTimeKeyError(ms) ==
    \E i \in DOMAIN ms :
        /\ Has(ms[i], "lead_time_for_changes")
        /\ \/ ~Has(ms[i]["lead_time_for_changes"], "commit_timestamp")
           \/ ~Has(ms[i]["lead_time_for_changes"], "deploy_timestamp")

LeadTimeSecondsClamped(commit_time, deploy_time) ==
    IF deploy_time < commit_time THEN 0 ELSE deploy_time - commit_time

\* (deploy_time - commit_time).total_seconds()
LeadTimeSeconds(commit_time, deploy_time) == deploy_time - commit_time

\* The `lead_times` list: one row per event that has the payload key.
LeadTimeRows(ms) ==
    LET ev == LeadTimeEvents(ms)
    IN  [i \in DOMAIN ev |->
            LET lt == ev[i]["lead_time_for_changes"]
                lead_time_seconds ==
                    LeadTimeSeconds(lt["commit_timestamp"], lt["deploy_timestamp"])
            IN  [timestamp         |-> ev[i]["timestamp"],
                 service           |-> ev[i]["service"],
                 commit_timestamp  |-> lt["commit_timestamp"],
                 deploy_timestamp  |-> lt["deploy_timestamp"],
                 lead_time_seconds |-> lead_time_seconds,
                 lead_time_minutes |-> Ratio(lead_time_seconds, 60),
                 lead_time_hours   |-> Ratio(lead_time_seconds, 3600)]]

\* The values of a group in ascending order.
RECURSIVE SortValues(_)
SortValues(vs) ==
    IF vs = <<>> THEN <<>>
    ELSE LET i == CHOOSE i \in DOMAIN vs :
                      \A j \in DOMAIN vs : ~Less(vs[j], vs[i])
             rest == [j \in 1..(Len(vs) - 1) |->
                         IF j < i THEN vs[j] ELSE vs[j + 1]]
         IN  <<vs[i]>> \o SortValues(rest)

RECURSIVE SumValues(_)
SumValues(vs) ==
    IF vs = <<>> THEN Ratio(0, 1)
    ELSE Plus(Head(vs), SumValues(Tail(vs)))

Mean(vs) ==
    LET total == SumValues(vs) IN Ratio(total.num, total.den * Len(vs))

Median(vs) ==
    LET sorted == SortValues(vs)
        n == Len(vs)
    IN  IF n % 2 = 1 THEN sorted[(n + 1) \div 2]
        ELSE LET two == Plus(sorted[n \div 2], sorted[n \div 2 + 1])
             IN  Ratio(two.num, two.den * 2)

Min(vs) == SortValues(vs)[1]
Max(vs) == SortValues(vs)[Len(vs)]

\* groupby(['date', 'service']).agg({'lead_time_hours': [mean, median, min,
\* max]}).reset_index(), with the columns renamed.
DailyAverage(df) ==
    {LET group == SelectSeq(df, LAMBDA row : KeyOf(row, "date") = k)
         hours == [i \in DOMAIN group |-> group[i].lead_time_hours]
     IN  [date                   |-> k[1],
          service                |-> k[2],
          avg_lead_time_hours    |-> Mean(hours),
          median_lead_time_hours |-> Median(hours),
          min_lead_time_hours    |-> Min(hours),
          max_lead_time_hours    |-> Max(hours)]
     : k \in {KeyOf(df[i], "date") : i \in DOMAIN df}}

calculate_lead_time(ms) ==
    LET df == LeadTimeRows(ms)
    IN  IF df = <<>> THEN EmptyDataFrame
        ELSE Dict([daily_average |-> DailyAverage(df), raw |-> df])

----------------------------------------------------------------------------
(* calculate_change_failure_rate *)

\* for metric in metrics: if 'change_failure_rate' in metric
ChangeEvents(ms) ==
    SelectSeq(ms, LAMBDA m : Has(m, "change_failure_rate"))

\* cfr['status'] raises KeyError.
ChangeKeyError(ms) ==
    \E i \in DOMAIN ms :
        /\ Has(ms[i], "change_failure_rate")
        /\ ~Has(ms[i]["change_failure_rate"], "status")

\* The `changes` list: one row per event that has the payload key.
ChangeRows(ms) ==
    LET ev == ChangeEvents(ms)
    IN  [i \in DOMAIN ev |->
            [timestamp |-> ev[i]["timestamp"],
             service   |-> ev[i]["service"],
             status    |-> ev[i]["change_failure_rate"]["status"]]]

\* groupby([period, 'service', 'status']).size().unstack(fill_value=0): one
\* row per (period, service) that occurs, one column per status that occurs
\* anywhere in the frame, 0 where the triple does not occur.
Unstack(df, column) ==
    LET columns == {df[i].status : i \in DOMAIN df}
    IN  [k \in {KeyOf(df[i], column) : i \in DOMAIN df} |->
            [c \in columns |->
                Cardinality({i \in DOMAIN df :
                                KeyOf(df[i], column) = k /\ df[i].status = c})]]

\* if column not in frame.columns: frame[column] = 0
ZeroFill(row, column) ==
    IF column \in DOMAIN row THEN row ELSE row @@ (column :> 0)

TotalChangesAllStatuses(row) == SumOver(DOMAIN row, row)

\* frame['success'] + frame['failure']
TotalChanges(row) == row["success"] + row["failure"]

\* (count / total_changes * 100).round(2)
Rate(count, total_changes) == Round2(Times(Divide(count, total_changes), 100))

DailyChangeFailureRate(df) ==
    LET counts == Unstack(df, "date")
    IN  {LET row == ZeroFill(ZeroFill(counts[k], "success"), "failure")
             total_changes == TotalChanges(row)
         IN  row @@ [date          |-> k[1],
                     service       |-> k[2],
                     total_changes |-> total_changes,
                     failure_rate  |-> Rate(row["failure"], total_changes),
                     success_rate  |-> Rate(row["success"], total_changes)]
         : k \in DOMAIN counts}

WeeklyChangeFailureRate(df) ==
    LET counts == Unstack(df, "week")
    IN  {LET row == ZeroFill(ZeroFill(counts[k], "success"), "failure")
             total_changes == TotalChanges(row)
         IN  row @@ [week          |-> k[1],
                     service       |-> k[2],
                     total_changes |-> total_changes,
                     failure_rate  |-> Rate(row["failure"], total_changes)]
         : k \in DOMAIN counts}

calculate_change_failure_rate(ms) ==
    LET df == ChangeRows(ms)
    IN  IF df = <<>> THEN EmptyDataFrame
        ELSE Dict([daily  |-> DailyChangeFailureRate(df),
                   weekly |-> WeeklyChangeFailureRate(df),
                   raw    |-> df])

----------------------------------------------------------------------------
(* Events the runs are fed *)

Event(ts, service, payload) ==
    [timestamp |-> ts, service |-> service] @@ payload

Deployment(id) == "deployment_frequency" :> [deployment_id |-> id]
DeploymentWithoutId == "deployment_frequency" :> [branch |-> "main"]
LeadTime(commit, deploy) ==
    "lead_time_for_changes" :>
        [commit_timestamp |-> commit, deploy_timestamp |-> deploy]
LeadTimeWithoutDeploy(commit) ==
    "lead_time_for_changes" :> [commit_timestamp |-> commit]
ChangeOutcome(status) == "change_failure_rate" :> [status |-> status]
ChangeOutcomeWithoutStatus == "change_failure_rate" :> [workflow_run_id |-> 7]
UnknownKind == "unknown_kind" :> <<>>

Services == {"api", "web"}

\* 2024-01-28T23:00 (Sunday), 2024-01-29T09:00 (Monday), 2024-02-01T12:00
\* (Thursday of the same week, next month), 2024-02-05T01:00 (next Monday).
DeploymentTimestamps == {1706482800, 1706518800, 1706788800, 1707094800}

DeploymentUniverse ==
    {Event(ts, s, Deployment(id)) :
        ts \in DeploymentTimestamps, s \in Services, id \in {"d1", "d2"}}
    \cup {Event(1706518800, "api", DeploymentWithoutId),
          Event(1706518800, "api", UnknownKind)}

\* 2024-01-29T09:00, 2024-01-29T17:00 (the same day) and 2024-02-01T12:00.
LeadTimeTimestamps == {1706518800, 1706547600, 1706788800}

\* Commits at 2024-01-29T08:00; deploys 1 h before it and 1 h and 2 h
\* after it.
LeadTimeUniverse ==
    {Event(ts, s, LeadTime(1706515200, deploy)) :
        ts \in LeadTimeTimestamps, s \in Services,
        deploy \in {1706511600, 1706518800, 1706522400}}
    \cup {Event(1706518800, "api", LeadTimeWithoutDeploy(1706515200)),
          Event(1706518800, "api", UnknownKind)}

\* 2024-01-29T09:00, 2024-01-29T17:00 (the same day), 2024-02-01T12:00 (the
\* same week).
ChangeTimestamps == {1706518800, 1706547600, 1706788800}

ChangeUniverse ==
    {Event(ts, s, ChangeOutcome(status)) :
        ts \in ChangeTimestamps, s \in Services,
        status \in {"success", "failure", "cancelled"}}
    \cup {Event(1706518800, "api", ChangeOutcomeWithoutStatus),
          Event(1706518800, "api", UnknownKind)}

\* 2024-01-28T23:00 and 2024-02-01T12:00.
RunTimestamps == {1706482800, 1706788800}

RunPayloads ==
    {UnknownKind,
     Deployment("d1"),
     DeploymentWithoutId,
     LeadTime(1706515200, 1706522400),
     LeadTimeWithoutDeploy(1706515200),
     ChangeOutcome("success"),
     ChangeOutcome("failure"),
     ChangeOutcomeWithoutStatus,
     Deployment("d1") @@ ChangeOutcome("failure"),
     Deployment("d1") @@ LeadTime(1706515200, 1706522400)
         @@ ChangeOutcome("success")}

\* A file of metrics/raw: JSON that loads, or text json.load rejects.
JsonFile(data) == [loads |-> TRUE, data |-> data]
BrokenFile == [loads |-> FALSE, data |-> <<>>]

RunUniverse ==
    {JsonFile(Event(ts, "api", payload)) :
        ts \in RunTimestamps, payload \in RunPayloads}
    \cup {BrokenFile}

DeploymentCandidates == SetToSeq(DeploymentUniverse)
LeadTimeCandidates == SetToSeq(LeadTimeUniverse)
ChangeCandidates == SetToSeq(ChangeUniverse)
RunCandidates == SetToSeq(RunUniverse)

----------------------------------------------------------------------------
(* The run *)

InitCommon ==
    /\ deployment_freq = Unset
    /\ lead_time = Unset
    /\ change_failure_rate = Unset
    /\ files = {}
    /\ attempted = {}
    /\ summary = <<>>
    /\ error = "none"

\* generate_powerbi_export from its first line: metrics/raw is missing, or
\* holds up to MaxFiles .json files.
Init ==
    /\ InitCommon
    /\ \/ raw_dir_exists = FALSE /\ raw_files = <<>>
       \/ /\ raw_dir_exists = TRUE
          /\ \E idx \in Listings(Len(RunCandidates), MaxFiles) :
                raw_files = Listed(RunCandidates, idx)
    /\ metrics = <<>>
    /\ pc = "load_metrics"

\* The inputs of calculate_deployment_frequency alone.
InitDeployment ==
    /\ InitCommon
    /\ raw_dir_exists = TRUE
    /\ raw_files = <<>>
    /\ \E idx \in Listings(Len(DeploymentCandidates), MaxEvents) :
          metrics = Listed(DeploymentCandidates, idx)
    /\ pc = "calculate_deployment_frequency"

\* The inputs of calculate_lead_time alone.
InitLeadTime ==
    /\ InitCommon
    /\ raw_dir_exists = TRUE
    /\ raw_files = <<>>
    /\ \E idx \in Listings(Len(LeadTimeCandidates), MaxEvents) :
          metrics = Listed(LeadTimeCandidates, idx)
    /\ pc = "calculate_lead_time"

\* The inputs of calculate_change_failure_rate alone.
InitChangeFailureRate ==
    /\ InitCommon
    /\ raw_dir_exists = TRUE
    /\ raw_files = <<>>
    /\ \E idx \in Listings(Len(ChangeCandidates), MaxEvents) :
          metrics = Listed(ChangeCandidates, idx)
    /\ pc = "calculate_change_failure_rate"

\* load_metrics: [] when the directory is missing; a file that fails to load
\* is reported and skipped.
load_metrics ==
    IF ~raw_dir_exists THEN <<>>
    ELSE LET loaded == SelectSeq(raw_files, LAMBDA f : f.loads)
         IN  [i \in DOMAIN loaded |-> loaded[i].data]

\* metrics = load_metrics(); if not metrics: return
LoadMetrics ==
    /\ pc = "load_metrics"
    /\ metrics' = load_metrics
    /\ pc' = IF metrics' = <<>> THEN "returned"
             ELSE "calculate_deployment_frequency"
    /\ UNCHANGED <<raw_dir_exists, raw_files, deployment_freq, lead_time,
                   change_failure_rate, files, attempted, summary, error>>

CalculateDeploymentFrequency ==
    /\ pc = "calculate_deployment_frequency"
    /\ IF DeploymentKeyError(metrics)
       THEN /\ pc' = "crashed"
            /\ error' = "KeyError"
            /\ UNCHANGED deployment_freq
       ELSE /\ pc' = "calculate_lead_time"
            /\ deployment_freq' = calculate_deployment_frequency(metrics)
            /\ UNCHANGED error
    /\ UNCHANGED <<raw_dir_exists, raw_files, metrics, lead_time,
                   change_failure_rate, files, attempted, summary>>

CalculateLeadTime ==
    /\ pc = "calculate_lead_time"
    /\ IF LeadTimeKeyError(metrics)
       THEN /\ pc' = "crashed"
            /\ error' = "KeyError"
            /\ UNCHANGED lead_time
       ELSE /\ pc' = "calculate_change_failure_rate"
            /\ lead_time' = calculate_lead_time(metrics)
            /\ UNCHANGED error
    /\ UNCHANGED <<raw_dir_exists, raw_files, metrics, deployment_freq,
                   change_failure_rate, files, attempted, summary>>

CalculateChangeFailureRate ==
    /\ pc = "calculate_change_failure_rate"
    /\ IF ChangeKeyError(metrics)
       THEN /\ pc' = "crashed"
            /\ error' = "KeyError"
            /\ UNCHANGED change_failure_rate
       ELSE /\ pc' = "if_deployment_freq"
            /\ change_failure_rate' = calculate_change_failure_rate(metrics)
            /\ UNCHANGED error
    /\ UNCHANGED <<raw_dir_exists, raw_files, metrics, deployment_freq,
                   lead_time, files, attempted, summary>>

\* The export statements in program order: each `if` and the to_csv calls it
\* guards, then the statement after the block.
ExportPlan ==
    [if_deployment_freq |->
        [result |-> "deployment_freq", table |-> "daily",
         then |-> "deployment_frequency_daily", else |-> "if_lead_time"],
     if_lead_time |->
        [result |-> "lead_time", table |-> "daily_average",
         then |-> "lead_time_daily", else |-> "if_change_failure_rate"],
     if_change_failure_rate |->
        [result |-> "change_failure_rate", table |-> "daily",
         then |-> "change_failure_rate_daily", else |-> "summary"]]

\* After each to_csv, the statement that follows it.
AfterCsv ==
    [deployment_frequency_daily   |-> "deployment_frequency_weekly",
     deployment_frequency_weekly  |-> "deployment_frequency_monthly",
     deployment_frequency_monthly |-> "if_lead_time",
     lead_time_daily              |-> "lead_time_raw",
     lead_time_raw                |-> "if_change_failure_rate",
     change_failure_rate_daily    |-> "change_failure_rate_weekly",
     change_failure_rate_weekly   |-> "summary"]

ResultOf(name) ==
    CASE name = "deployment_freq"     -> deployment_freq
      [] name = "lead_time"           -> lead_time
      [] name = "change_failure_rate" -> change_failure_rate

\* bool(x): a non-empty dict is true; a DataFrame, empty or not, raises
\* "The truth value of a DataFrame is ambiguous".
TruthValueRaises(x) == x.kind = "DataFrame"

\* `if x and not x[table].empty:`
IfResult ==
    /\ pc \in DOMAIN ExportPlan
    /\ LET plan == ExportPlan[pc]
           x == ResultOf(plan.result)
       IN  IF TruthValueRaises(x)
           THEN /\ pc' = "crashed"
                /\ error' = "ValueError"
           ELSE /\ pc' = IF x.tables[plan.table] # {} THEN plan.then
                         ELSE plan.else
                /\ UNCHANGED error
    /\ UNCHANGED <<raw_dir_exists, raw_files, metrics, deployment_freq,
                   lead_time, change_failure_rate, files, attempted, summary>>

\* One to_csv call: the file is written, or the destination cannot be
\* written and the OSError leaves generate_powerbi_export.
ToCsv ==
    /\ pc \in DOMAIN AfterCsv
    /\ attempted' = attempted \cup {pc}
    /\ \E writable \in BOOLEAN :
          IF writable
          THEN /\ files' = files \cup {pc}
               /\ pc' = AfterCsv[pc]
               /\ UNCHANGED error
          ELSE /\ pc' = "crashed"
               /\ error' = "OSError"
               /\ UNCHANGED files
    /\ UNCHANGED <<raw_dir_exists, raw_files, metrics, deployment_freq,
                   lead_time, change_failure_rate, summary>>

Least(S) == CHOOSE x \in S : \A y \in S : x <= y

Greatest(S) == CHOOSE x \in S : \A y \in S : y <= x

SummaryOfClassified(ms) ==
    LET classified ==
            SelectSeq(ms, LAMBDA m : Has(m, "deployment_frequency")
                                     \/ Has(m, "lead_time_for_changes")
                                     \/ Has(m, "change_failure_rate"))
    IN  [total_metrics |-> Len(classified),
         date_range |->
            [start |-> Least({classified[i]["timestamp"] : i \in DOMAIN classified}),
             end   |-> Greatest({classified[i]["timestamp"] : i \in DOMAIN classified})]]

\* The summary dict, without generated_at (the wall clock).
Summary(ms) ==
    [total_metrics |-> Len(ms),
     date_range |->
        [start |-> Least({ms[i]["timestamp"] : i \in DOMAIN ms}),
         end   |-> Greatest({ms[i]["timestamp"] : i \in DOMAIN ms})]]

\* The summary is built and dumped to metrics/aggregated/summary_<date>.json.
WriteSummary ==
    /\ pc = "summary"
    /\ attempted' = attempted \cup {"summary"}
    /\ \E writable \in BOOLEAN :
          IF writable
          THEN /\ summary' = <<Summary(metrics)>>
               /\ files' = files \cup {"summary"}
               /\ pc' = "done"
               /\ UNCHANGED error
          ELSE /\ pc' = "crashed"
               /\ error' = "OSError"
               /\ UNCHANGED <<files, summary>>
    /\ UNCHANGED <<raw_dir_exists, raw_files, metrics, deployment_freq,
                   lead_time, change_failure_rate>>

Next ==
    \/ LoadMetrics
    \/ CalculateDeploymentFrequency
    \/ CalculateLeadTime
    \/ CalculateChangeFailureRate
    \/ IfResult
    \/ ToCsv
    \/ WriteSummary

Spec == Init /\ [][Next]_vars

SpecDeployment == InitDeployment /\ [][CalculateDeploymentFrequency]_vars

SpecLeadTime == InitLeadTime /\ [][CalculateLeadTime]_vars

SpecChangeFailureRate ==
    InitChangeFailureRate /\ [][CalculateChangeFailureRate]_vars

Terminated == pc \in {"returned", "crashed", "done"}

----------------------------------------------------------------------------
(* Properties *)

Count(S) == Cardinality(S)

\* The events of the ingested set that carry a payload key, by position.
Carrying(key) == {i \in DOMAIN metrics : Has(metrics[i], key)}

RowsOf(result, table) ==
    IF result.kind = "dict" THEN result.tables[table] ELSE {}

RawOf(result) == IF result.kind = "dict" THEN result.tables.raw ELSE <<>>

Hundred == Ratio(100, 1)
Zero == Ratio(0, 1)

\* C1: in the daily and the weekly change-failure-rate table every
\* failure_rate is a number within [0, 100], and it is 0 in every row whose
\* total_changes is 0.
RateOk(row) ==
    /\ IsFinite(row["failure_rate"])
    /\ ~Less(row["failure_rate"], Zero)
    /\ ~Less(Hundred, row["failure_rate"])
    /\ row["total_changes"] = 0 => row["failure_rate"] = Zero

FailureRateWithinRangeAndZeroWithoutChanges ==
    /\ \A row \in RowsOf(change_failure_rate, "daily") : RateOk(row)
    /\ \A row \in RowsOf(change_failure_rate, "weekly") : RateOk(row)

\* C3: in every row of the daily change-failure-rate table success_rate +
\* failure_rate is 100.
SuccessRatePlusFailureRateIsHundred ==
    \A row \in RowsOf(change_failure_rate, "daily") :
        Plus(row["success_rate"], row["failure_rate"]) = Hundred

\* The civil day of an instant, or the Monday and Sunday of its week.
BucketOf(ts, label) ==
    LET day == ts \div 86400
    IN  IF label = "date" THEN day
        ELSE <<day - ((day + 3) % 7), day - ((day + 3) % 7) + 6>>

\* The change-outcome events of a bucket with a given status, counted on the
\* ingested events themselves.
ChangesIn(label, period, service, status) ==
    Count({i \in Carrying("change_failure_rate") :
              /\ BucketOf(metrics[i]["timestamp"], label) = period
              /\ metrics[i]["service"] = service
              /\ metrics[i]["change_failure_rate"]["status"] = status})

ChangeBuckets(label) ==
    {<<BucketOf(metrics[i]["timestamp"], label), metrics[i]["service"]>> :
        i \in Carrying("change_failure_rate")}

CountsOk(rows, label) ==
    \A k \in ChangeBuckets(label) :
        LET mine == {row \in rows : row[label] = k[1] /\ row["service"] = k[2]}
        IN  /\ Count(mine) = 1
            /\ \A row \in mine :
                  /\ {"success", "failure"} \subseteq DOMAIN row
                  /\ row["success"] = ChangesIn(label, k[1], k[2], "success")
                  /\ row["failure"] = ChangesIn(label, k[1], k[2], "failure")
                  /\ row["total_changes"] = row["success"] + row["failure"]

\* C5: every (bucket, service) with a change-outcome row has exactly one row
\* in the daily and in the weekly table; the row has a success and a failure
\* column holding the number of the bucket's rows with exactly that status,
\* and total_changes is their sum.
SuccessAndFailureColumnsCountTheirStatus ==
    change_failure_rate.kind = "dict" =>
        /\ CountsOk(change_failure_rate.tables.daily, "date")
        /\ CountsOk(change_failure_rate.tables.weekly, "week")

\* A bucket of cancelled and successful changes in a run without any
\* failure: the failure column is zero-filled.
ZeroFilledFailureColumnReached ==
    /\ change_failure_rate.kind = "dict"
    /\ \A i \in DOMAIN metrics :
          Has(metrics[i], "change_failure_rate")
              => metrics[i]["change_failure_rate"]["status"] # "failure"
    /\ \E row \in change_failure_rate.tables.daily :
          /\ "cancelled" \in DOMAIN row
          /\ row["cancelled"] >= 1
          /\ row["success"] >= 1
          /\ row["failure"] = 0

Counts(rows) == SumOver(rows, [row \in rows |-> row.deployment_count])

\* C4: for every (service, week) the daily deployment counts of the week's
\* days add up to the weekly count, and every deployment event, repeated
\* deployment_id or not, is counted once in each of the three tables.
DailyCountsAddUpToWeekly ==
    deployment_freq.kind = "dict" =>
        LET daily == deployment_freq.tables.daily
            weekly == deployment_freq.tables.weekly
            monthly == deployment_freq.tables.monthly
        IN  /\ \A w \in weekly :
                  Counts({d \in daily :
                             /\ d.service = w.service
                             /\ d.period \in w.period[1]..w.period[2]})
                      = w.deployment_count
            /\ \A d \in daily :
                  \E w \in weekly :
                      /\ d.service = w.service
                      /\ d.period \in w.period[1]..w.period[2]
            /\ Counts(daily) = Count(Carrying("deployment_frequency"))
            /\ Counts(weekly) = Count(Carrying("deployment_frequency"))
            /\ Counts(monthly) = Count(Carrying("deployment_frequency"))

\* Two deployments of one service with the same deployment_id on two days of
\* one week.
RepeatedDeploymentIdInOneWeekReached ==
    /\ deployment_freq.kind = "dict"
    /\ \E i, j \in DOMAIN metrics :
          /\ i < j
          /\ Has(metrics[i], "deployment_frequency")
          /\ Has(metrics[j], "deployment_frequency")
          /\ metrics[i]["deployment_frequency"] = metrics[j]["deployment_frequency"]
          /\ metrics[i]["service"] = metrics[j]["service"]
          /\ DateOf(metrics[i]["timestamp"]) # DateOf(metrics[j]["timestamp"])
          /\ WeekOf(metrics[i]["timestamp"]) = WeekOf(metrics[j]["timestamp"])

\* deploy_timestamp - commit_timestamp of the event at position i, in seconds.
SignedSeconds(i) ==
    metrics[i]["lead_time_for_changes"]["deploy_timestamp"]
        - metrics[i]["lead_time_for_changes"]["commit_timestamp"]

\* x = seconds / 3600.
IsHours(x, seconds) == x.den > 0 /\ x.num * 3600 = seconds * x.den

\* The event at position i is a k-th smallest of the events I.
IsKthSmallest(i, k, I) ==
    /\ Count({j \in I : SignedSeconds(j) < SignedSeconds(i)}) < k
    /\ k <= Count({j \in I : SignedSeconds(j) <= SignedSeconds(i)})

BucketStatisticsOk(row, I) ==
    LET n == Count(I)
        total == SumOver(I, [i \in I |-> SignedSeconds(i)])
        avg == row.avg_lead_time_hours
        med == row.median_lead_time_hours
    IN  /\ n > 0
        /\ avg.den > 0 /\ avg.num * 3600 * n = total * avg.den
        /\ \E i \in I :
              /\ IsHours(row.min_lead_time_hours, SignedSeconds(i))
              /\ \A j \in I : SignedSeconds(i) <= SignedSeconds(j)
        /\ \E i \in I :
              /\ IsHours(row.max_lead_time_hours, SignedSeconds(i))
              /\ \A j \in I : SignedSeconds(j) <= SignedSeconds(i)
        /\ \E a, b \in I :
              /\ IsKthSmallest(a, (n + 1) \div 2, I)
              /\ IsKthSmallest(b, n \div 2 + 1, I)
              /\ med.den > 0
              /\ med.num * 3600 * 2 = (SignedSeconds(a) + SignedSeconds(b)) * med.den

\* C6: every lead-time event yields one raw row whose lead time is the
\* signed deploy_timestamp - commit_timestamp; each (day, service) with an
\* event has one daily row whose mean, median, minimum and maximum are those
\* of all the bucket's events, negative ones included; no other row exists.
SignedLeadTimesFeedEveryStatistic ==
    lead_time.kind = "dict" =>
        LET raw == lead_time.tables.raw
            events == SelectSeq([i \in DOMAIN metrics |-> i],
                                LAMBDA i : Has(metrics[i], "lead_time_for_changes"))
            bucket(i) == <<DateOf(metrics[i]["timestamp"]), metrics[i]["service"]>>
        IN  /\ Len(raw) = Len(events)
            /\ \A n \in DOMAIN events :
                  /\ raw[n].lead_time_seconds = SignedSeconds(events[n])
                  /\ IsHours(raw[n].lead_time_hours, SignedSeconds(events[n]))
            /\ \A row \in lead_time.tables.daily_average :
                  BucketStatisticsOk(row,
                      {i \in Range(events) : bucket(i) = <<row.date, row.service>>})
            /\ \A i \in Range(events) :
                  Count({row \in lead_time.tables.daily_average :
                            <<row.date, row.service>> = bucket(i)}) = 1

\* A bucket of at least three events, one of them deployed before its
\* commit: the minimum is negative and the maximum is not.
NegativeLeadTimeInBucketReached ==
    /\ lead_time.kind = "dict"
    /\ \E row \in lead_time.tables.daily_average :
          /\ row.min_lead_time_hours.num < 0
          /\ row.max_lead_time_hours.num > 0
          /\ Count({i \in Carrying("lead_time_for_changes") :
                       /\ DateOf(metrics[i]["timestamp"]) = row.date
                       /\ metrics[i]["service"] = row.service}) >= 3

PayloadKeys == {"deployment_frequency", "lead_time_for_changes", "change_failure_rate"}

IsInert(m) == DOMAIN m \cap PayloadKeys = {}

WithoutInert(ms) == SelectSeq(ms, LAMBDA m : ~IsInert(m))

\* C9: an event with none of the three payload keys changes no metric table
\* (each result is the one the other events alone give), and the summary
\* counts it in total_metrics and takes its timestamp into date_range.
InertEventsReachOnlyTheSummary ==
    /\ deployment_freq.kind # "unset" =>
          deployment_freq = calculate_deployment_frequency(WithoutInert(metrics))
    /\ lead_time.kind # "unset" =>
          lead_time = calculate_lead_time(WithoutInert(metrics))
    /\ change_failure_rate.kind # "unset" =>
          change_failure_rate = calculate_change_failure_rate(WithoutInert(metrics))
    /\ summary # <<>> =>
          /\ summary[1].total_metrics = Len(metrics)
          /\ \A i \in DOMAIN metrics :
                /\ summary[1].date_range.start <= metrics[i]["timestamp"]
                /\ metrics[i]["timestamp"] <= summary[1].date_range.end
          /\ \E i, j \in DOMAIN metrics :
                /\ summary[1].date_range.start = metrics[i]["timestamp"]
                /\ summary[1].date_range.end = metrics[j]["timestamp"]

\* A finished run whose earliest event is an inert one.
InertEventIsEarliestInSummaryReached ==
    /\ pc = "done"
    /\ \E i \in DOMAIN metrics :
          /\ IsInert(metrics[i])
          /\ \A j \in DOMAIN metrics :
                ~IsInert(metrics[j]) =>
                    metrics[i]["timestamp"] < metrics[j]["timestamp"]
          /\ summary[1].date_range.start = metrics[i]["timestamp"]
          /\ summary[1].total_metrics = Len(metrics)

KindsOf(m) == DOMAIN m \cap PayloadKeys

\* C10 as stated: an event with more than one payload key contributes a row
\* to none of the three tables.
EventsOfSeveralKindsAreRejected ==
    /\ deployment_freq.kind # "unset" =>
          Len(RawOf(deployment_freq))
              = Count({i \in Carrying("deployment_frequency") :
                          Count(KindsOf(metrics[i])) = 1})
    /\ lead_time.kind # "unset" =>
          Len(RawOf(lead_time))
              = Count({i \in Carrying("lead_time_for_changes") :
                          Count(KindsOf(metrics[i])) = 1})
    /\ change_failure_rate.kind # "unset" =>
          Len(RawOf(change_failure_rate))
              = Count({i \in Carrying("change_failure_rate") :
                          Count(KindsOf(metrics[i])) = 1})

RowsMatchCarriers(result, key) ==
    result.kind # "unset" =>
        LET raw == RawOf(result)
            events == SelectSeq(metrics, LAMBDA m : Has(m, key))
        IN  /\ Len(raw) = Len(events)
            /\ \A n \in DOMAIN events :
                  /\ raw[n].timestamp = events[n]["timestamp"]
                  /\ raw[n].service = events[n]["service"]

\* C10 as amended: an event contributes one row to the table of every
\* payload key it carries, whatever other payload keys it carries.
EventsCountInEveryKindTheyCarry ==
    /\ RowsMatchCarriers(deployment_freq, "deployment_frequency")
    /\ RowsMatchCarriers(lead_time, "lead_time_for_changes")
    /\ RowsMatchCarriers(change_failure_rate, "change_failure_rate")

\* A single event with two payload keys has a row in both tables.
EventInTwoTablesReached ==
    /\ Len(metrics) = 1
    /\ Count(KindsOf(metrics[1])) = 2
    /\ Len(RawOf(deployment_freq)) = 1
    /\ Len(RawOf(change_failure_rate)) = 1

\* C2: an event lacking a required field is skipped for its metric only:
\* when the run of a non-empty set ends, all three pipelines have run and
\* every event that has its required fields has its row.
EventLackingFieldIsOnlySkipped ==
    (Terminated /\ metrics # <<>>) =>
        /\ deployment_freq.kind # "unset"
        /\ lead_time.kind # "unset"
        /\ change_failure_rate.kind # "unset"
        /\ Len(RawOf(deployment_freq))
              = Count({i \in Carrying("deployment_frequency") :
                          Has(metrics[i]["deployment_frequency"], "deployment_id")})
        /\ Len(RawOf(lead_time))
              = Count({i \in Carrying("lead_time_for_changes") :
                          {"commit_timestamp", "deploy_timestamp"}
                              \subseteq DOMAIN metrics[i]["lead_time_for_changes"]})
        /\ Len(RawOf(change_failure_rate))
              = Count({i \in Carrying("change_failure_rate") :
                          Has(metrics[i]["change_failure_rate"], "status")})

FilesOf(result) ==
    CASE result = "deployment_freq" ->
            {"deployment_frequency_daily", "deployment_frequency_weekly",
             "deployment_frequency_monthly"}
      [] result = "lead_time" -> {"lead_time_daily", "lead_time_raw"}
      [] result = "change_failure_rate" ->
            {"change_failure_rate_daily", "change_failure_rate_weekly"}

Results == {"deployment_freq", "lead_time", "change_failure_rate"}

\* C7: when a run ends (every destination writable, every event holding its
\* required fields), the files of a metric exist if and only if its table
\* is non-empty, and an empty ingested set leaves no file and no summary.
FilesExistIffTableNonEmpty ==
    (Terminated /\ error \notin {"OSError", "KeyError"}) =>
        /\ metrics = <<>> => (files = {} /\ summary = <<>>)
        /\ \A r \in Results :
              IF ResultOf(r).kind = "dict"
              THEN FilesOf(r) \subseteq files
              ELSE FilesOf(r) \cap files = {}

\* C8: a destination that cannot be written fails that file only: when the
\* run ends, every export due in it has been attempted.
UnwritableDestinationFailsOnlyItsFile ==
    (Terminated /\ attempted \ files # {}) =>
        /\ "summary" \in attempted
        /\ \A r \in Results :
              ResultOf(r).kind = "dict" => FilesOf(r) \subseteq attempted

====
